---------------------------- MODULE Spec2Model ----------------------------
(***************************************************************************)
(* A model of eijiro (src/src/main.rs): the startup that loads the         *)
(* dictionary from the bincode cache or parses it from the corpus, the     *)
(* command-line lookup loop and the GTK frontend's key-release and         *)
(* row-activated callbacks.                                                *)
(*                                                                         *)
(* Headwords and queries are sequences of one-character strings; texts     *)
(* (idents, glosses, rendered descriptions) are strings.                   *)
(***************************************************************************)
EXTENDS Naturals, Sequences, FiniteSets

(***************************************************************************)
(* Bounds of the model.                                                    *)
(***************************************************************************)
\* longest query typed over the two-letter alphabet {a, b}
MaxQueryLen == 2
\* row_activated handlers that may be connected in one GUI run
MaxHandlers == 2
\* largest maximum distance handed to the lookup of LookupSpec
MaxDist == 4
\* longest query over {c, a, t} handed to the lookup of LookupSpec
MaxCatQueryLen == 3

(***************************************************************************)
(* Characters and their byte order.                                        *)
(***************************************************************************)
Alphabet == <<"a", "b", "c", "g", "l", "o", "t">>

CharOrd(c) == CHOOSE i \in 1..Len(Alphabet) : Alphabet[i] = c

Min2(x, y) == IF x <= y THEN x ELSE y

\* byte-wise lexicographic order of two headwords (the order of an fst's keys)
RECURSIVE KeyLess(_, _)
KeyLess(a, b) ==
    IF b = <<>> THEN FALSE
    ELSE IF a = <<>> THEN TRUE
    ELSE IF Head(a) # Head(b) THEN CharOrd(Head(a)) < CharOrd(Head(b))
    ELSE KeyLess(Tail(a), Tail(b))

\* the sequences over the set of characters cs of length at most n
RECURSIVE SeqsUpTo(_, _)
SeqsUpTo(cs, n) ==
    IF n = 0 THEN {<<>>}
    ELSE LET shorter == SeqsUpTo(cs, n - 1)
         IN  shorter \cup {Append(s, c) : s \in shorter, c \in cs}

Range(s) == {s[i] : i \in 1..Len(s)}

(***************************************************************************)
(* fst::automaton::Levenshtein, as used at main.rs:41 and main.rs:142.     *)
(* A state of the automaton is a row of the edit-distance table: row[i+1]  *)
(* is the distance between the input read so far and the first i           *)
(* characters of the query, capped at dist + 1.                            *)
(***************************************************************************)
\* the largest automaton Levenshtein::new builds before it gives up
STATE_LIMIT == 10000

\* stands for every character that does not occur in the query
Mismatch == "?"

LevStart(query) == [i \in 1..(Len(query) + 1) |-> i - 1]

RECURSIVE LevAcceptFrom(_, _, _, _, _, _)
LevAcceptFrom(query, dist, state, chr, i, next) ==
    IF i > Len(query) THEN next
    ELSE LET cost == IF query[i] = chr THEN 0 ELSE 1
             v    == Min2(Min2(next[i] + 1, state[i + 1] + 1), state[i] + cost)
         IN  LevAcceptFrom(query, dist, state, chr, i + 1,
                           Append(next, Min2(v, dist + 1)))

\* the row after reading chr
LevAccept(query, dist, state, chr) ==
    LevAcceptFrom(query, dist, state, chr, 1, <<state[1] + 1>>)

LevIsMatch(dist, state) == state[Len(state)] <= dist

LevCanMatch(dist, state) == \E i \in 1..Len(state) : state[i] <= dist

\* the rows the builder reaches from the start row: one automaton state each
RECURSIVE LevReach(_, _, _, _)
LevReach(query, dist, seen, frontier) ==
    IF frontier = {} \/ Cardinality(seen) > STATE_LIMIT THEN seen
    ELSE LET chars(s) == {query[i] : i \in {j \in 1..Len(query) : s[j] <= dist}}
                             \cup {Mismatch}
             succ  == UNION {{LevAccept(query, dist, s, c) : c \in chars(s)}
                                : s \in frontier}
             fresh == {s \in succ : LevCanMatch(dist, s)} \ seen
         IN  LevReach(query, dist, seen \cup fresh, fresh)

\* Whether Levenshtein::new(query, dist) is Err(TooManyStates).  Reading the
\* first k characters of the query leads to a row that starts with k and can
\* still match, so the automaton has at least Len(query) + 1 states: a query
\* of STATE_LIMIT characters is refused without enumerating its rows.
LevTooManyStates(query, dist) ==
    \/ Len(query) + 1 > STATE_LIMIT
    \/ Cardinality(LevReach(query, dist, {LevStart(query)}, {LevStart(query)}))
           > STATE_LIMIT

\* the row reached on the input word
RECURSIVE LevRun(_, _, _, _)
LevRun(query, dist, state, word) ==
    IF word = <<>> THEN state
    ELSE LevRun(query, dist, LevAccept(query, dist, state, Head(word)), Tail(word))

LevMatches(query, dist, word) ==
    LevIsMatch(dist, LevRun(query, dist, LevStart(query), word))

(***************************************************************************)
(* dict.keys.search(&matcher).into_stream(): the keys the automaton        *)
(* accepts, each with its index into dict.fields, in key order.            *)
(***************************************************************************)
RECURSIVE SearchFrom(_, _, _, _)
SearchFrom(keys, query, dist, i) ==
    IF i > Len(keys) THEN <<>>
    ELSE (IF LevMatches(query, dist, keys[i])
             THEN <<[k |-> keys[i], idx |-> i]>> ELSE <<>>)
         \o SearchFrom(keys, query, dist, i + 1)

Search(keys, query, dist) == SearchFrom(keys, query, dist, 1)

(***************************************************************************)
(* eijiro_parser::Field and the dictionaries of the model.                 *)
(* ident is <<>> for None and <<tag>> for Some(tag).                       *)
(***************************************************************************)
Fld(ident, body, complements, examples) ==
    [ident |-> ident,
     explanation |-> [body |-> body, complements |-> complements],
     examples |-> examples]

F_a1  == Fld(<<"n">>, "first", <<"note">>, <<"An a.">>)
F_a2  == Fld(<<>>, "one", <<>>, <<>>)
F_b   == Fld(<<"v">>, "second", <<>>, <<>>)
F_ba  == Fld(<<>>, "sheep", <<"x", "y">>, <<"Ba.", "Baa.">>)
F_ab  == Fld(<<"adj">>, "muscle", <<>>, <<"Abs.">>)
F_cat1 == Fld(<<"n">>, "feline animal", <<>>, <<"The cat slept.">>)
F_cat2 == Fld(<<"v">>, "to move stealthily", <<>>, <<>>)
F_catalog == Fld(<<>>, "a list of items", <<>>, <<>>)

\* a corpus line: a well-formed (headword, Field) line or a malformed one
Line(head, field) == [ok |-> TRUE, head |-> head, field |-> field]
BadLine == [ok |-> FALSE, head |-> <<>>, field |-> F_a2]

CorpusA == <<Line(<<"b">>, F_b), Line(<<"a">>, F_a1), BadLine,
             Line(<<"b", "a">>, F_ba), Line(<<"a">>, F_a2)>>
CorpusB == <<Line(<<"a", "b">>, F_ab)>>
CorpusBad == <<BadLine>>
CorpusCat == <<Line(<<"c", "a", "t">>, F_cat1), Line(<<"c", "a", "t">>, F_cat2),
               Line(<<"c", "a", "t", "a", "l", "o", "g">>, F_catalog)>>

EmptyDict == [keys |-> <<>>, fields |-> <<>>]

(***************************************************************************)
(* eijiro_parser::parse: the corpus parser and the dictionary builder.     *)
(***************************************************************************)
\* the least headword of a non-empty set
MinKey(S) == CHOOSE k \in S : \A o \in S \ {k} : KeyLess(k, o)

RECURSIVE SortKeys(_)
SortKeys(S) == IF S = {} THEN <<>>
               ELSE <<MinKey(S)>> \o SortKeys(S \ {MinKey(S)})

\* the Fields of headword k, in corpus order
RECURSIVE GroupOf(_, _)
GroupOf(entries, k) ==
    IF entries = <<>> THEN <<>>
    ELSE (IF Head(entries).head = k THEN <<Head(entries).field>> ELSE <<>>)
         \o GroupOf(Tail(entries), k)

Build(entries) ==
    LET keys == SortKeys({entries[i].head : i \in 1..Len(entries)})
    IN  [keys |-> keys, fields |-> [i \in 1..Len(keys) |-> GroupOf(entries, keys[i])]]

\* malformed lines are skipped; a corpus with no well-formed line is an error
parse(text) ==
    LET entries == SelectSeq(text, LAMBDA l : l.ok)
    IN  IF entries = <<>> THEN [ok |-> FALSE, dict |-> EmptyDict]
        ELSE [ok |-> TRUE, dict |-> Build(entries)]

(***************************************************************************)
(* bincode::serialize / bincode::deserialize of a Dict (main.rs:225, 233). *)
(* The bytes are a sequence of tokens: a sequence is written as its        *)
(* length followed by its elements, an Option as 0 or 1 followed by the    *)
(* value, a string as one token.                                           *)
(***************************************************************************)
RECURSIVE Flatten(_)
Flatten(ss) == IF ss = <<>> THEN <<>> ELSE Head(ss) \o Flatten(Tail(ss))

SerSeq(s) == <<Len(s)>> \o s

SerField(f) ==
    (IF f.ident = <<>> THEN <<0>> ELSE <<1, f.ident[1]>>)
    \o <<f.explanation.body>>
    \o SerSeq(f.explanation.complements)
    \o SerSeq(f.examples)

SerGroup(g) == <<Len(g)>> \o Flatten([i \in 1..Len(g) |-> SerField(g[i])])

Serialize(d) ==
    <<Len(d.keys)>> \o Flatten([i \in 1..Len(d.keys) |-> SerSeq(d.keys[i])])
    \o <<Len(d.fields)>> \o Flatten([i \in 1..Len(d.fields) |-> SerGroup(d.fields[i])])

\* A reader's result: ok, the value read and the bytes left.
Got(v, rest) == [ok |-> TRUE, val |-> v, rest |-> rest]
Eof == [ok |-> FALSE, val |-> <<>>, rest |-> <<>>]

IsLen(t) == t \in 0..64

\* a length, then that many tokens
DeSeq(bytes) ==
    IF bytes = <<>> \/ ~IsLen(Head(bytes)) THEN Eof
    ELSE IF Len(bytes) - 1 < Head(bytes) THEN Eof
    ELSE Got(SubSeq(bytes, 2, Head(bytes) + 1),
             SubSeq(bytes, Head(bytes) + 2, Len(bytes)))

DeField(bytes) ==
    IF bytes = <<>> \/ Head(bytes) \notin {0, 1} THEN Eof
    ELSE LET tagged == Head(bytes) = 1
             skip   == IF tagged THEN 2 ELSE 1
         IN  IF Len(bytes) < skip + 1 THEN Eof
             ELSE LET ident == IF tagged THEN <<bytes[2]>> ELSE <<>>
                      body  == bytes[skip + 1]
                      c     == DeSeq(SubSeq(bytes, skip + 2, Len(bytes)))
                      e     == IF c.ok THEN DeSeq(c.rest) ELSE Eof
                  IN  IF e.ok THEN Got(Fld(ident, body, c.val, e.val), e.rest)
                      ELSE Eof

\* n length-prefixed sequences
RECURSIVE DeSeqs(_, _, _)
DeSeqs(bytes, n, acc) ==
    IF n = 0 THEN Got(acc, bytes)
    ELSE LET r == DeSeq(bytes)
         IN  IF r.ok THEN DeSeqs(r.rest, n - 1, Append(acc, r.val)) ELSE Eof

\* n Fields
RECURSIVE DeFields(_, _, _)
DeFields(bytes, n, acc) ==
    IF n = 0 THEN Got(acc, bytes)
    ELSE LET r == DeField(bytes)
         IN  IF r.ok THEN DeFields(r.rest, n - 1, Append(acc, r.val)) ELSE Eof

\* a length, then that many Fields: the Vec<Field> of one key
DeGroup(bytes) ==
    IF bytes = <<>> \/ ~IsLen(Head(bytes)) THEN Eof
    ELSE DeFields(Tail(bytes), Head(bytes), <<>>)

\* n groups
RECURSIVE DeGroups(_, _, _)
DeGroups(bytes, n, acc) ==
    IF n = 0 THEN Got(acc, bytes)
    ELSE LET r == DeGroup(bytes)
         IN  IF r.ok THEN DeGroups(r.rest, n - 1, Append(acc, r.val)) ELSE Eof

Deserialize(bytes) ==
    LET k == IF bytes = <<>> \/ ~IsLen(Head(bytes)) THEN Eof
             ELSE DeSeqs(Tail(bytes), Head(bytes), <<>>)
        f == IF ~k.ok \/ k.rest = <<>> \/ ~IsLen(Head(k.rest)) THEN Eof
             ELSE DeGroups(Tail(k.rest), Head(k.rest), <<>>)
    IN  IF f.ok THEN [ok |-> TRUE, dict |-> [keys |-> k.val, fields |-> f.val]]
        ELSE [ok |-> FALSE, dict |-> EmptyDict]

\* what a write that fails half way leaves in the file
Truncated(bytes) == SubSeq(bytes, 1, Len(bytes) - 1)

(***************************************************************************)
(* printer (main.rs:12-35)                                                 *)
(***************************************************************************)
RECURSIVE FoldText(_, _, _)
FoldText(p, mark, texts) ==
    IF texts = <<>> THEN p
    ELSE FoldText(p \o mark \o Head(texts), mark, Tail(texts))

printer(key, field) ==
    LET header == IF field.ident # <<>> THEN "{" \o field.ident[1] \o "} : "
                  ELSE ""
    IN  header
        \o field.explanation.body
        \o FoldText("", "◆", field.explanation.complements)
        \o FoldText("", "\n        ", field.examples)

(***************************************************************************)
(* The lookup shared by the two frontends: the automaton, the index        *)
(* search and the join with dict.fields.                                   *)
(***************************************************************************)
\* a default distance of one edit
default_lookup_distance_one == 0 + 1

\* const default_lookup_distance: u32 = 0 (main.rs:37)
default_lookup_distance == 0

\* the distance of the GUI's lookups: Levenshtein::new(&query, 1) (main.rs:142)
gui_lookup_distance == 1

\* word.starts_with(&query)
starts_with(word, query) ==
    /\ Len(query) <= Len(word)
    /\ SubSeq(word, 1, Len(query)) = query

\* desc of one match: every Field of the key, printed, each followed by "\n"
\* (main.rs:148-152)
RECURSIVE DescOf(_, _)
DescOf(item, fields) ==
    IF fields = <<>> THEN ""
    ELSE printer(item, Head(fields)) \o "\n" \o DescOf(item, Tail(fields))

\* word_descs: one (word, desc) per key of the stream, in stream order
\* (main.rs:145-154)
WordDescs(d, stream) ==
    [i \in 1..Len(stream) |->
        [word |-> stream[i].k, desc |-> DescOf(stream[i].k, d.fields[stream[i].idx])]]

\* the split in prefix_ok and prefix_ng and prefix_ok.append(&mut prefix_ng)
\* (main.rs:156-168)
RECURSIVE RankFrom(_, _, _, _, _)
RankFrom(query, word_descs, i, prefix_ok, prefix_ng) ==
    IF i > Len(word_descs) THEN prefix_ok \o prefix_ng
    ELSE IF starts_with(word_descs[i].word, query)
         THEN RankFrom(query, word_descs, i + 1, Append(prefix_ok, word_descs[i]), prefix_ng)
         ELSE RankFrom(query, word_descs, i + 1, prefix_ok, Append(prefix_ng, word_descs[i]))

\* a ranking that appends the prefix matches after the others
Rank_swapped(query, word_descs) ==
    SelectSeq(word_descs, LAMBDA tp : ~starts_with(tp.word, query))
    \o SelectSeq(word_descs, LAMBDA tp : starts_with(tp.word, query))

\* a ranking that inserts each match at the front of its group
Rank_prepend(query, word_descs) ==
    LET ok == SelectSeq(word_descs, LAMBDA tp : starts_with(tp.word, query))
        ng == SelectSeq(word_descs, LAMBDA tp : ~starts_with(tp.word, query))
    IN  [i \in 1..Len(ok) |-> ok[Len(ok) + 1 - i]]
        \o [i \in 1..Len(ng) |-> ng[Len(ng) + 1 - i]]

Rank(query, word_descs) == RankFrom(query, word_descs, 1, <<>>, <<>>)

\* What a lookup leaves behind.  error is "none" or "TooManyStates"
\* (Levenshtein::new is Err and the unwrap panics); searches and
\* field_lookups count the index searches and the reads of dict.fields.
Outcome(op, query, dist, error, word_descs, ranked, searches) ==
    [op |-> op, emptyQuery |-> (query = <<>>), query |-> query, dist |-> dist,
     error |-> error, word_descs |-> word_descs, ranked |-> ranked,
     searches |-> searches, field_lookups |-> Len(word_descs), row |-> 0]

NoOutcome == [Outcome("none", <<>>, 0, "none", <<>>, <<>>, 0) EXCEPT !.emptyQuery = FALSE]

\* a lookup whose automaton could not be built: the query is not kept
Panicked(op, query, dist) ==
    [Outcome(op, <<>>, dist, "TooManyStates", <<>>, <<>>, 0)
        EXCEPT !.emptyQuery = (query = <<>>)]

\* The body of the key-release closure from the query to the ranked list
\* (main.rs:136-168), with the distance of main.rs:142 as a parameter.
Lookup(d, query, dist) ==
    IF query = <<>> THEN Outcome("lookup", query, dist, "none", <<>>, <<>>, 0)
    ELSE IF LevTooManyStates(query, dist) THEN Panicked("lookup", query, dist)
    ELSE LET word_descs == WordDescs(d, Search(d.keys, query, dist))
         IN  Outcome("lookup", query, dist, "none", word_descs,
                     Rank(query, word_descs), 1)

\* one printed line per Field of every key of the stream (main.rs:43-48)
RECURSIVE PrintedLines(_, _)
PrintedLines(d, stream) ==
    IF stream = <<>> THEN <<>>
    ELSE LET fields == d.fields[Head(stream).idx]
         IN  [i \in 1..Len(fields) |-> printer(Head(stream).k, fields[i])]
             \o PrintedLines(d, Tail(stream))

(***************************************************************************)
(* lookup_word (main.rs:39-49): the result of one call.  stdout starts     *)
(* with the "<Search word: [..]>" line, printed before the automaton is    *)
(* built.  dict is borrowed (&Dict) and handed back as it was.             *)
(***************************************************************************)
\* a lookup_word that forgets the keys it printed
lookup_word_consuming(word, d) ==
    IF LevTooManyStates(word, default_lookup_distance)
    THEN [last |-> Panicked("lookup_word", word, default_lookup_distance),
          stdout |-> <<"<Search word>">>, dict |-> d]
    ELSE LET stream == Search(d.keys, word, default_lookup_distance)
             hit    == {stream[i].idx : i \in 1..Len(stream)}
             left   == SelectSeq([i \in 1..Len(d.keys) |-> i], LAMBDA i : i \notin hit)
         IN  [last |-> Outcome("lookup_word", word, default_lookup_distance, "none",
                               WordDescs(d, stream), WordDescs(d, stream), 1),
              stdout |-> <<"<Search word>">>,
              dict |-> [keys |-> [i \in 1..Len(left) |-> d.keys[left[i]]],
                        fields |-> [i \in 1..Len(left) |-> d.fields[left[i]]]]]

lookup_word(word, d) ==
    IF LevTooManyStates(word, default_lookup_distance)
    THEN [last |-> Panicked("lookup_word", word, default_lookup_distance),
          stdout |-> <<"<Search word>">>, dict |-> d]
    ELSE LET stream     == Search(d.keys, word, default_lookup_distance)
             word_descs == WordDescs(d, stream)
         IN  [last |-> Outcome("lookup_word", word, default_lookup_distance, "none",
                               word_descs, word_descs, 1),
              stdout |-> <<"<Search word>">> \o PrintedLines(d, stream),
              dict |-> d]

(***************************************************************************)
(* The GUI callbacks (main.rs:132-195).                                    *)
(***************************************************************************)
\* The key-release closure.  The list store and the description are cleared
\* first (main.rs:133-134); a non-empty query that gets through connects one
\* more row_activated handler, which owns descs (main.rs:182-192).
key_release_event(d, query, hs) ==
    LET r     == [Lookup(d, query, gui_lookup_distance) EXCEPT !.op = "key_release"]
        words == [i \in 1..Len(r.ranked) |-> r.ranked[i].word]
        descs == [i \in 1..Len(r.ranked) |-> r.ranked[i].desc]
    IN  IF query = <<>> \/ r.error # "none"
        THEN [last |-> r, word_list_store |-> <<>>, word_desc |-> "", handlers |-> hs]
        ELSE [last |-> r, word_list_store |-> words,
              word_desc |-> IF Len(descs) > 0 THEN descs[1] ELSE "",
              handlers |-> Append(hs, descs)]

\* Every connected row_activated handler runs, in the order of connection,
\* on the activated row idx (counted from 0); each sets the description to
\* its own descs[idx] and panics when idx is past the end of its descs.
RECURSIVE RunHandlers(_, _, _, _)
RunHandlers(hs, i, idx, text) ==
    IF i > Len(hs) THEN [panicked |-> FALSE, word_desc |-> text]
    ELSE IF idx >= Len(hs[i]) THEN [panicked |-> TRUE, word_desc |-> text]
    ELSE RunHandlers(hs, i + 1, idx, hs[i][idx + 1])

row_activated(hs, idx, text) == RunHandlers(hs, 1, idx, text)

(***************************************************************************)
(* The files, the inputs and the state.                                    *)
(***************************************************************************)
NoFile == [exists |-> FALSE, content |-> <<>>]
File(content) == [exists |-> TRUE, content |-> content]

\* a save that writes the keys and leaves every Field out
SaveBytes_keys_only(d) ==
    Serialize([keys |-> d.keys, fields |-> [i \in 1..Len(d.keys) |-> <<>>]])

\* the bytes main writes to ./dict_dump.bincode (main.rs:233)
SaveBytes(d) == Serialize(d)

\* the caches a run may find: none, one that an earlier run saved, and one
\* that an earlier run's failed write left truncated
\* by tells whether the file is as an earlier run left it ("before") or
\* was written by a run of this behaviour ("run")
NothingSaved == [valid |-> FALSE, dict |-> EmptyDict, by |-> "before"]
SavedFrom(d, by) == [valid |-> TRUE, dict |-> d, by |-> by]

SavedCaches ==
    {[file |-> NoFile, saved |-> NothingSaved]}
    \cup {[file |-> File(SaveBytes(parse(c).dict)),
           saved |-> SavedFrom(parse(c).dict, "before")] : c \in {CorpusA, CorpusB}}
    \cup {[file |-> File(Truncated(SaveBytes(parse(CorpusA).dict))),
           saved |-> NothingSaved]}

Corpora == {NoFile, File(CorpusA), File(CorpusB), File(CorpusBad)}

\* a query longer than any automaton Levenshtein::new builds
LongQuery == [i \in 1..STATE_LIMIT |-> "a"]

Queries == SeqsUpTo({"a", "b"}, MaxQueryLen) \cup {LongQuery}

ExitLine == <<":", "e", "x", "i", "t">>

\* the longest word list: every key of the larger dictionary
MaxRows == Len(parse(CorpusA).dict.keys)

\* word.trim_end()
RECURSIVE trim_end(_)
trim_end(line) ==
    IF line # <<>> /\ line[Len(line)] \in {"\n", " "}
    THEN trim_end(SubSeq(line, 1, Len(line) - 1))
    ELSE line

NoStartup == [loadFailure |-> "none", parseAttempted |-> FALSE,
              saveFailure |-> FALSE, fromCache |-> FALSE]

VARIABLES
    pc,               \* where the process is: start, loaded, cli, gui, exited, crashed
    cacheFile,        \* ./dict_dump.bincode
    corpus,           \* ./EIJIRO.txt
    savedDict,        \* the dictionary whose bytes cacheFile holds, if it holds one whole
    startup,          \* what happened to the cache in this run's startup
    log,              \* the info! lines of this run
    dict,             \* the Dict of this run
    constructions,    \* how many times this run built or loaded a Dict
    stdout,           \* what the last lookup_word printed
    word_list_store,  \* the rows of the word list
    word_desc,        \* the text of the description view
    handlers,         \* the descs of every connected row_activated handler
    last              \* the outcome of the last lookup or callback

vars == <<pc, cacheFile, corpus, savedDict, startup, log, dict, constructions,
          stdout, word_list_store, word_desc, handlers, last>>

gui_vars == <<word_list_store, word_desc, handlers>>
file_vars == <<cacheFile, corpus, savedDict>>

Init ==
    /\ pc = "start"
    /\ \E c \in SavedCaches : cacheFile = c.file /\ savedDict = c.saved
    /\ corpus \in Corpora
    /\ startup = NoStartup
    /\ log = <<>>
    /\ dict = EmptyDict
    /\ constructions = 0
    /\ stdout = <<>>
    /\ word_list_store = <<>>
    /\ word_desc = ""
    /\ handlers = <<>>
    /\ last = NoOutcome

(***************************************************************************)
(* main (main.rs:205-243)                                                  *)
(***************************************************************************)
\* std::fs::read is Ok: the bytes are deserialized, and the unwrap of
\* main.rs:225 panics on bytes that are no Dict.
LoadCache ==
    /\ pc = "start"
    /\ cacheFile.exists
    /\ LET r == Deserialize(cacheFile.content)
       IN  IF r.ok
           THEN /\ pc' = "loaded"
                /\ dict' = r.dict
                /\ constructions' = constructions + 1
                /\ log' = log \o <<"Loading dict", "Loaded dict">>
                /\ startup' = [startup EXCEPT !.fromCache = TRUE]
           ELSE /\ pc' = "crashed"
                /\ log' = log \o <<"Loading dict">>
                /\ startup' = [startup EXCEPT !.loadFailure = "corrupt"]
                /\ UNCHANGED <<dict, constructions>>
    /\ UNCHANGED <<file_vars, stdout, gui_vars, last>>

\* std::fs::read is Err: the corpus is read and parsed (both unwrapped), and
\* the result of std::fs::write is dropped by "let _ =" (main.rs:229-235).
\* The write ends "ok", "denied" (nothing written) or "partial".
ParseCorpus(write) ==
    /\ pc = "start"
    /\ ~cacheFile.exists
    /\ log' = log \o <<"Parse EIJIRO.txt">>
    /\ UNCHANGED <<corpus, stdout, gui_vars, last>>
    /\ IF ~corpus.exists \/ ~parse(corpus.content).ok
       THEN /\ write = "ok"
            /\ pc' = "crashed"
            /\ startup' = [startup EXCEPT !.loadFailure = "missing",
                                          !.parseAttempted = TRUE]
            /\ UNCHANGED <<cacheFile, savedDict, dict, constructions>>
       ELSE LET d == parse(corpus.content).dict
            IN  /\ pc' = "loaded"
                /\ dict' = d
                /\ constructions' = constructions + 1
                /\ startup' = [startup EXCEPT !.loadFailure = "missing",
                                              !.parseAttempted = TRUE,
                                              !.saveFailure = (write # "ok")]
                /\ cacheFile' = CASE write = "ok" -> File(SaveBytes(d))
                                  [] write = "partial" -> File(Truncated(SaveBytes(d)))
                                  [] OTHER -> cacheFile
                /\ savedDict' = CASE write = "ok" -> SavedFrom(d, "run")
                                  [] write = "partial" ->
                                        [NothingSaved EXCEPT !.by = "run"]
                                  [] OTHER -> savedDict

\* matches.is_present("gui_flag") (main.rs:238-239)
StartGui ==
    /\ pc = "loaded"
    /\ pc' = "gui"
    /\ UNCHANGED <<file_vars, startup, log, dict, constructions, stdout,
                   gui_vars, last>>

(***************************************************************************)
(* cli_frontend (main.rs:51-66)                                            *)
(***************************************************************************)
\* the word given on the command line: one lookup, then main returns
CliWordArgument(word) ==
    /\ pc = "loaded"
    /\ LET r == lookup_word(word, dict)
       IN  /\ last' = r.last
           /\ stdout' = r.stdout
           /\ dict' = r.dict
           /\ pc' = IF r.last.error # "none" THEN "crashed" ELSE "exited"
    /\ UNCHANGED <<file_vars, startup, log, constructions, gui_vars>>

\* no word on the command line: the prompt loop
StartCliLoop ==
    /\ pc = "loaded"
    /\ pc' = "cli"
    /\ UNCHANGED <<file_vars, startup, log, dict, constructions, stdout,
                   gui_vars, last>>

\* one line of standard input
CliReadLine(line) ==
    /\ pc = "cli"
    /\ LET word == trim_end(line)
       IN  IF word = ExitLine
           THEN /\ pc' = "exited"
                /\ UNCHANGED <<last, stdout, dict>>
           ELSE LET r == lookup_word(word, dict)
                IN  /\ last' = r.last
                    /\ stdout' = r.stdout
                    /\ dict' = r.dict
                    /\ pc' = IF r.last.error # "none" THEN "crashed" ELSE "cli"
    /\ UNCHANGED <<file_vars, startup, log, constructions, gui_vars>>

(***************************************************************************)
(* gui_frontend (main.rs:68-203)                                           *)
(***************************************************************************)
\* a key release in the entry whose text is query
GuiKeyRelease(query) ==
    /\ pc = "gui"
    /\ query = <<>> \/ Len(handlers) < MaxHandlers
    /\ LET r == key_release_event(dict, query, handlers)
       IN  /\ last' = r.last
           /\ word_list_store' = r.word_list_store
           /\ word_desc' = r.word_desc
           /\ handlers' = r.handlers
           /\ pc' = IF r.last.error # "none" THEN "crashed" ELSE "gui"
    /\ UNCHANGED <<file_vars, startup, log, dict, constructions, stdout>>

\* a click on row `row` of the word list (rows are counted from 1 here, the
\* tree path's index from 0)
GuiRowActivated(row) ==
    /\ pc = "gui"
    /\ row \in 1..Len(word_list_store)
    /\ LET r == row_activated(handlers, row - 1, word_desc)
       IN  /\ word_desc' = r.word_desc
           /\ last' = [NoOutcome EXCEPT !.op = "row_activated", !.row = row,
                          !.error = IF r.panicked THEN "IndexOutOfBounds" ELSE "none"]
           /\ pc' = IF r.panicked THEN "crashed" ELSE "gui"
    /\ UNCHANGED <<file_vars, startup, log, dict, constructions, stdout,
                   word_list_store, handlers>>

\* the window's delete event: gtk::main_quit (main.rs:86-89)
GuiClose ==
    /\ pc = "gui"
    /\ pc' = "exited"
    /\ UNCHANGED <<file_vars, startup, log, dict, constructions, stdout,
                   gui_vars, last>>

\* the program is started again; only the files are left of the last run
Restart ==
    /\ pc \in {"exited", "crashed"}
    /\ pc' = "start"
    /\ startup' = NoStartup
    /\ log' = <<>>
    /\ dict' = EmptyDict
    /\ constructions' = 0
    /\ stdout' = <<>>
    /\ word_list_store' = <<>>
    /\ word_desc' = ""
    /\ handlers' = <<>>
    /\ last' = NoOutcome
    /\ UNCHANGED file_vars

Next ==
    \/ LoadCache
    \/ \E write \in {"ok", "denied", "partial"} : ParseCorpus(write)
    \/ StartGui
    \/ \E word \in Queries : CliWordArgument(word)
    \/ StartCliLoop
    \/ \E word \in Queries \cup {ExitLine} : CliReadLine(word \o <<"\n">>)
    \/ \E query \in Queries : GuiKeyRelease(query)
    \/ \E row \in 1..MaxRows : GuiRowActivated(row)
    \/ GuiClose
    \/ Restart

Spec == Init /\ [][Next]_vars

(***************************************************************************)
(* The lookup as a function of the query and the maximum distance, on the  *)
(* dictionary of the two headwords cat and catalog.                        *)
(***************************************************************************)
Cat == <<"c", "a", "t">>
Catalog == <<"c", "a", "t", "a", "l", "o", "g">>

CatQueries == SeqsUpTo({"c", "a", "t"}, MaxCatQueryLen) \cup {Catalog}

LookupInit ==
    /\ pc = "facade"
    /\ cacheFile = NoFile
    /\ savedDict = NothingSaved
    /\ corpus = File(CorpusCat)
    /\ startup = NoStartup
    /\ log = <<>>
    /\ dict = parse(CorpusCat).dict
    /\ constructions = 1
    /\ stdout = <<>>
    /\ word_list_store = <<>>
    /\ word_desc = ""
    /\ handlers = <<>>
    /\ \E query \in CatQueries, dist \in 0..MaxDist :
          last = Outcome("input", query, dist, "none", <<>>, <<>>, 0)

LookupApply ==
    /\ pc = "facade"
    /\ last.op = "input"
    /\ last' = Lookup(dict, last.query, last.dist)
    /\ UNCHANGED <<pc, file_vars, startup, log, dict, constructions, stdout,
                   gui_vars>>

LookupNext == LookupApply

LookupSpec == LookupInit /\ [][LookupNext]_vars

(***************************************************************************)
(* Properties                                                              *)
(***************************************************************************)
\* the unit-cost edit distance (insert, delete, substitute) of two words
RECURSIVE EditDistance(_, _)
EditDistance(a, b) ==
    IF a = <<>> THEN Len(b)
    ELSE IF b = <<>> THEN Len(a)
    ELSE Min2(Min2(EditDistance(Tail(a), b) + 1, EditDistance(a, Tail(b)) + 1),
              EditDistance(Tail(a), Tail(b)) + (IF Head(a) = Head(b) THEN 0 ELSE 1))

\* q is a literal prefix of w
IsPrefix(q, w) == \A i \in 1..Len(q) : i <= Len(w) /\ w[i] = q[i]

WordsOf(tps) == [i \in 1..Len(tps) |-> tps[i].word]

LookupDone == last.op \in {"lookup_word", "key_release"} /\ last.error = "none"

\* C1: the ranked list of a key release is a stable partition of the
\* enumeration of the search: the same results, none added, dropped or
\* repeated; every result whose headword starts with the query comes before
\* every result whose headword does not; and two results of the same group
\* keep the order in which the search enumerated them.  The word list shows
\* the ranked headwords.
C1_RankIsStablePartition ==
    (last.op = "key_release" /\ last.error = "none") =>
        LET e == last.word_descs
            r == last.ranked
            q == last.query
            pos(x) == CHOOSE i \in 1..Len(e) : e[i] = x
        IN  /\ Len(r) = Len(e)
            /\ Range(r) = Range(e)
            /\ \A i, j \in 1..Len(r) : i < j =>
                  /\ r[i] # r[j]
                  /\ IsPrefix(q, r[j].word) => IsPrefix(q, r[i].word)
                  /\ (IsPrefix(q, r[i].word) <=> IsPrefix(q, r[j].word))
                        => pos(r[i]) < pos(r[j])
            /\ word_list_store = WordsOf(r)

\* a key release whose ranking moved a prefix match in front of an earlier
\* key that is no prefix match
C1_Witness ==
    /\ last.op = "key_release"
    /\ last.error = "none"
    /\ Len(last.ranked) = 3
    /\ last.ranked # last.word_descs

\* C2: whenever the load of the cache failed (file missing or bytes that are
\* no Dict), the startup went on to parse the corpus.
C2_FallbackOnAnyLoadFailure ==
    startup.loadFailure # "none" => startup.parseAttempted

\* C3: a lookup of the empty query, from lookup_word or from a key release,
\* is no error, returns nothing, and does no index search and no read of
\* dict.fields.
C3_EmptyQueryShortCircuits ==
    (last.op \in {"lookup_word", "key_release"} /\ last.emptyQuery) =>
        /\ last.error = "none"
        /\ pc # "crashed"
        /\ last.ranked = <<>>
        /\ last.searches = 0
        /\ last.field_lookups = 0

\* C4: a key of the dictionary is among the keys a search returned exactly
\* when its edit distance from the query is at most the distance of the
\* search; and lookup_word, which searches at the default distance, returns
\* the key equal to the word and no other.
C4_SearchIsEditDistanceBall ==
    (LookupDone /\ last.searches = 1) =>
        LET returned == Range(WordsOf(last.word_descs))
        IN  /\ \A k \in Range(dict.keys) :
                  k \in returned <=> EditDistance(last.query, k) <= last.dist
            /\ returned \subseteq Range(dict.keys)
            /\ last.op = "lookup_word" =>
                  returned = {k \in Range(dict.keys) : k = last.query}

\* lookup_word found its word, and left out two keys one edit away
C4_Witness ==
    /\ last.op = "lookup_word"
    /\ last.error = "none"
    /\ WordsOf(last.word_descs) = <<last.query>>
    /\ Cardinality({k \in Range(dict.keys) : EditDistance(last.query, k) = 1}) = 2

CatDesc == "{n} : feline animal\n        The cat slept.\n{v} : to move stealthily\n"

C6_ConstructionFailureIsPerCall ==
    last.error = "TooManyStates" =>
        /\ pc # "crashed"
        /\ last.ranked = <<>>

InfoLines == {"Loading dict", "Loaded dict", "Parse EIJIRO.txt"}

\* C7: when the save of the cache failed, the startup still got through and
\* the log has a line about it.
C7_SaveFailureLoggedNotFatal ==
    startup.saveFailure =>
        /\ pc # "crashed"
        /\ \E i \in 1..Len(log) : log[i] \notin InfoLines

\* C8: a dictionary loaded from the cache is the dictionary the cache was
\* saved from: the same keys in the same order, and the same Fields in the
\* same order for every key.
C8_LoadOfSaveIsIdentity ==
    startup.fromCache =>
        /\ savedDict.valid
        /\ dict.keys = savedDict.dict.keys
        /\ dict.fields = savedDict.dict.fields

\* a run loaded the three-key dictionary of the corpus from the cache that
\* an earlier run of the behaviour had saved
C8_Witness ==
    /\ savedDict.by = "run"
    /\ startup.fromCache
    /\ corpus = File(CorpusA)
    /\ Len(dict.keys) = 3
    /\ dict = parse(CorpusA).dict

Serving == pc \in {"loaded", "cli", "gui"}

\* C9: while queries are served the dictionary has been constructed exactly
\* once in this run, no query was answered before, and no step of a
\* frontend - a lookup, one that fails too, a key release, a row
\* activation - changes the dictionary.
C9_BuiltOnceThenFrozen ==
    /\ [](Serving => constructions = 1)
    /\ [](last.op # "none" => constructions = 1)
    /\ [][Serving => dict' = dict]_vars

\* the prompt loop answered a query that matched a key
C9_Witness ==
    /\ pc = "cli"
    /\ last.op = "lookup_word"
    /\ Len(last.word_descs) = 1
    /\ constructions = 1

\* C10: after a row was activated, no handler has panicked and the
\* description view shows the description of the word of that row.
C10_ActivationShowsRow ==
    last.op = "row_activated" =>
        /\ pc # "crashed"
        /\ \E i \in 1..Len(dict.keys) :
              /\ dict.keys[i] = word_list_store[last.row]
              /\ word_desc = DescOf(dict.keys[i], dict.fields[i])

=============================================================================
